---- MODULE Spec2Model ----
(***************************************************************************)
(* A model of the Intel HEX parser of package ihex (src/parser.go).        *)
(*                                                                         *)
(* The Parser struct is the record p; the bufio.Scanner it reads from is   *)
(* the environment: every Scan() either delivers one line, drawn from the  *)
(* set Inputs, or reports the end of the input or an I/O error.  A line is *)
(* a sequence of ASCII codes.  A Go slice of the scanner's buffer can be   *)
(* resliced past its length up to its capacity, so a line comes with what  *)
(* lies behind it in the buffer (past).  Parse() loops over lines (the     *)
(* label NextRec); pc records whether a call is running.                   *)
(***************************************************************************)
EXTENDS Integers, Sequences, FiniteSets, TLC

VARIABLES p, scanner, pc, ret, g

vars == <<p, scanner, pc, ret, g>>

\* The number of lines the reader delivers at most.
MaxLines == 3

----------------------------------------------------------------------------
(* Bytes, words and hexadecimal text *)

Byte(x) == x % 256

\* uint32(a) | uint32(b), bit by bit
RECURSIVE Or(_, _)
Or(a, b) ==
    IF a = 0 THEN b
    ELSE IF b = 0 THEN a
    ELSE 2 * Or(a \div 2, b \div 2) + (IF a % 2 = 1 \/ b % 2 = 1 THEN 1 ELSE 0)

\* A uint32 is kept as its two 16-bit halves, so that every number stays
\* below 2^31.
U32(n) == [hi |-> (n \div 65536) % 65536, lo |-> n % 65536]

\* a + b in uint32
Add32(a, b) ==
    [hi |-> (a.hi + b.hi + ((a.lo + b.lo) \div 65536)) % 65536,
     lo |-> (a.lo + b.lo) % 65536]

\* a | b in uint32
Or32(a, b) == [hi |-> Or(a.hi, b.hi), lo |-> Or(a.lo, b.lo)]

\* uint32(w) << 16
Shl16(w) == [hi |-> w % 65536, lo |-> 0]

\* encoding/hex's fromHexChar: the value of an ASCII hex digit, 16 for any
\* other character
fromHexChar(c) ==
    IF c >= 48 /\ c <= 57 THEN c - 48
    ELSE IF c >= 97 /\ c <= 102 THEN c - 97 + 10
    ELSE IF c >= 65 /\ c <= 70 THEN c - 65 + 10
    ELSE 16

IsHex(c) == fromHexChar(c) < 16

\* The index (from 1) of the first character of src that is no hex digit,
\* Len(src) + 1 when there is none.
FirstBad(src) ==
    LET bad == {i \in 1..Len(src) : ~IsHex(src[i])}
    IN  IF bad = {} THEN Len(src) + 1
        ELSE CHOOSE i \in bad : \A j \in bad : i <= j

\* encoding/hex.Decode(dst, src): the number of bytes decoded before the
\* first error, the bytes written to dst, and whether it failed.
Decode(src) ==
    LET fb == FirstBad(src)
        nd == IF fb > Len(src) THEN Len(src) \div 2 ELSE (fb - 1) \div 2
    IN  [nd   |-> nd,
         out  |-> [i \in 1..nd |->
                     16 * fromHexChar(src[2 * i - 1]) + fromHexChar(src[2 * i])],
         fail |-> IF fb <= Len(src) THEN "hex: invalid byte"
                  ELSE IF Len(src) % 2 = 1 THEN "hex: odd length"
                  ELSE "nil"]

----------------------------------------------------------------------------
(* The input: lines of text, as the tests of the package write them *)

\* An upper-case hex digit
HexDigit(d) == IF d < 10 THEN 48 + d ELSE 55 + d

\* The text of a sequence of bytes, two digits each
HexText(bytes) ==
    [i \in 1..(2 * Len(bytes)) |->
        IF i % 2 = 1 THEN HexDigit(bytes[(i + 1) \div 2] \div 16)
        ELSE HexDigit(bytes[i \div 2] % 16)]

\* s[lo] + ... + s[hi]
RECURSIVE SumRange(_, _, _)
SumRange(s, lo, hi) ==
    IF lo > hi THEN 0
    ELSE IF lo = hi THEN s[lo]
    ELSE LET mid == (lo + hi) \div 2
         IN  SumRange(s, lo, mid) + SumRange(s, mid + 1, hi)

SumSeq(s) == SumRange(s, 1, Len(s))

\* A payload of n bytes, all different when n <= 256
Payload(n, seed) == [i \in 1..n |-> (seed + i) % 256]

\* The bytes of a record before its checksum
Header(d) == <<d.len, d.off \div 256, d.off % 256, d.typ>> \o d.pay

\* The checksum byte: the two's complement of the sum, one less when the
\* line is to carry a wrong checksum
Checksum(d) ==
    LET good == (256 - (SumSeq(Header(d)) % 256)) % 256
    IN  IF d.ck THEN good ELSE (good + 255) % 256

\* The line of text of a description d
Render(d) ==
    LET full == HexText(Header(d) \o <<Checksum(d)>>)
    IN  CASE d.shape = "blank"  -> <<>>
          [] d.shape = "ok"     -> <<58>> \o full
          [] d.shape = "nomark" -> full
          [] d.shape = "short"  -> <<58>> \o SubSeq(full, 1, Len(full) - 2)
          [] d.shape = "odd"    -> <<58>> \o SubSeq(full, 1, Len(full) - 1)
          [] d.shape = "trail"  -> <<58>> \o full \o <<48, 48>>
          [] d.shape = "nonhex" -> <<58>> \o SubSeq(full, 1, Len(full) - 1) \o <<71>>
          [] d.shape = "mutated" -> <<58>> \o HexText(d.pay)
          [] d.shape = "head"   -> <<58>> \o SubSeq(full, 1, 6)

Rec(typ, len, off, pay, ck, shape) ==
    [typ |-> typ, len |-> len, off |-> off, pay |-> pay, ck |-> ck, shape |-> shape]

DataRec(off, n) == Rec(0, n, off, Payload(n, 96), TRUE, "ok")
WordRec(typ, w) == Rec(typ, 2, 0, <<w \div 256, w % 256>>, TRUE, "ok")
TwoWordRec(typ, w1, w2) ==
    Rec(typ, 4, 0, <<w1 \div 256, w1 % 256, w2 \div 256, w2 % 256>>, TRUE, "ok")
EndRec == Rec(1, 0, 0, <<>>, TRUE, "ok")
BlankLine == Rec(0, 0, 0, <<>>, TRUE, "blank")

\* Lines that are valid records of the types 0..5, and the blank line
GoodInputs ==
    { DataRec(16, 2), DataRec(65535, 2), DataRec(65535, 3), DataRec(65534, 3),
      DataRec(65535, 1), DataRec(0, 0), DataRec(65520, 127),
      DataRec(0, 128), DataRec(0, 255),
      WordRec(2, 4608), WordRec(2, 0), WordRec(4, 65535),
      TwoWordRec(3, 4660, 22136), TwoWordRec(5, 4660, 22136),
      EndRec, BlankLine }

\* Records of an unknown type
UnknownInputs ==
    { Rec(6, 0, 0, <<>>, TRUE, "ok"), Rec(255, 2, 16, <<1, 2>>, TRUE, "ok") }

\* Lines that are no valid record
BadInputs ==
    { Rec(0, 2, 65535, Payload(2, 96), FALSE, "ok"),
      Rec(2, 2, 0, <<18, 0>>, FALSE, "ok"),
      Rec(1, 0, 0, <<>>, FALSE, "ok"),
      Rec(1, 0, 0, <<>>, TRUE, "short"),
      Rec(1, 0, 0, <<>>, TRUE, "odd"),
      Rec(1, 0, 0, <<>>, TRUE, "trail"),
      Rec(1, 0, 0, <<>>, TRUE, "nomark"),
      Rec(1, 1, 0, <<>>, TRUE, "ok"),
      Rec(0, 3, 16, Payload(2, 96), TRUE, "ok"),
      Rec(0, 2, 16, Payload(2, 96), TRUE, "nonhex"),
      Rec(2, 2, 0, <<18, 0>>, TRUE, "short") }

\* Records of the types 1..5 whose length is not the one of their type
BadLengthInputs ==
    { Rec(2, 4, 0, <<18, 0, 0, 0>>, TRUE, "ok"),
      Rec(3, 2, 0, <<18, 52>>, TRUE, "ok"),
      Rec(4, 0, 0, <<>>, TRUE, "ok"),
      Rec(5, 2, 0, <<18, 52>>, TRUE, "ok") }

\* The valid record d with its i-th byte, counted from the length byte on,
\* changed to v: pay holds every byte of the line, the other fields what the
\* header now says
Mutate(d, i, v) ==
    LET raw == [Header(d) \o <<Checksum(d)>> EXCEPT ![i] = v]
    IN  Rec(raw[4], raw[1], raw[2] * 256 + raw[3], raw, TRUE, "mutated")

\* Valid records with one byte changed: the length, the offset, the type, a
\* payload byte, the checksum
MutatedInputs ==
    { Mutate(DataRec(16, 2), 1, 3), Mutate(DataRec(16, 2), 1, 1),
      Mutate(DataRec(16, 2), 3, 17),
      Mutate(DataRec(16, 2), 4, 1), Mutate(DataRec(16, 2), 4, 6),
      Mutate(DataRec(16, 2), 5, 0), Mutate(DataRec(16, 2), 7, 0),
      Mutate(WordRec(2, 4608), 4, 4), Mutate(WordRec(2, 4608), 1, 4),
      Mutate(EndRec, 4, 0), Mutate(EndRec, 1, 1) }

\* More lines of the types 3 and 5: a second valid type-3 record, one of
\* each type with a wrong checksum, a type-3 line that ends after its first
\* word
StartAddressInputs ==
    { TwoWordRec(3, 1, 2),
      Rec(3, 4, 0, <<0, 3, 0, 4>>, FALSE, "ok"),
      Rec(5, 4, 0, <<0, 5, 0, 6>>, FALSE, "ok"),
      Rec(3, 4, 0, <<18, 52>>, TRUE, "ok") }

\* A line that ends before its record type
CutHeaderInputs == { Rec(2, 2, 0, <<18, 0>>, TRUE, "head") }

Inputs ==
    GoodInputs \cup UnknownInputs \cup BadInputs \cup BadLengthInputs
        \cup MutatedInputs \cup StartAddressInputs \cup CutHeaderInputs

\* What lies behind a line in the scanner's buffer: the characters chars,
\* then zero bytes, up to room characters in all.  A line followed by its
\* newline; a last line that ends where the buffer ends; a last line with
\* no newline, followed by hex digits an earlier read left in the buffer.
Newline == [chars |-> <<10>>, room |-> 4000]
BufferEnd == [chars |-> <<>>, room |-> 0]
StaleHex == [chars |-> <<70, 70>>, room |-> 4000]

\* Lines whose text ends before the fields they declare
Truncated ==
    {d \in Inputs : d.shape \in {"short", "odd", "head"} \/ d.len # Len(d.pay)}

\* What one Scan() can deliver: a description, its text, and what lies behind
\* the text.  Every line can be followed by its newline; what else can lie
\* behind a last line is tried for the lines that are read past their end,
\* and for the end record.
Deliveries ==
    {[d |-> d, text |-> Render(d), past |-> Newline] : d \in Inputs}
    \cup {[d |-> d, text |-> Render(d), past |-> ps] :
             d \in Truncated \cup {EndRec}, ps \in {BufferEnd, StaleHex}}

\* d is a valid record of a type 0..5, or a blank line
WellFormed(d) ==
    \/ d.shape = "blank"
    \/ /\ d.shape = "ok"
       /\ d.ck
       /\ d.len = Len(d.pay)
       /\ d.typ \in 0..5
       /\ d.typ = 1 => d.len = 0
       /\ d.typ \in {2, 4} => d.len = 2
       /\ d.typ \in {3, 5} => d.len = 4

----------------------------------------------------------------------------
(* The Parser *)

\* A nil error.  A ParseError is [Line, Msg]; an error that is no ParseError
\* (of encoding/hex, of the reader) has Line -1.
nil == [Line |-> 0, Msg |-> "nil"]

\* A nil slice; a slice of p.field is the half-open range lo..hi of it
NilSlice == [lo |-> 0, hi |-> 0]

SliceLen(s) == s.hi - s.lo

\* The zero Record
ZeroRecord == [Address |-> U32(0), Bytes |-> NilSlice]

\* p.wrap == nil
NilWrap == [set |-> FALSE, Address |-> U32(0), Bytes |-> NilSlice]

\* What a slice of p.field holds
BytesOf(q, s) == SubSeq(q.field, s.lo + 1, s.hi)

reclens == <<0, 0, 2, 4, 2, 4>>

\* NewParser: the zero Parser.  panicked is not a field of the struct: it
\* records that a run-time panic has ended the goroutine.
NewParser ==
    [field |-> [i \in 1..256 |-> 0],
     err |-> nil,
     lba |-> U32(0), useLBA |-> FALSE,
     sba |-> U32(0), useSBA |-> FALSE,
     cs |-> 0, ip |-> 0, hasCSIP |-> FALSE,
     eip |-> U32(0), hasEIP |-> FALSE,
     data |-> ZeroRecord,
     wrap |-> NilWrap,
     b |-> <<>>, past |-> [chars |-> <<>>, room |-> 0],
     line |-> 0,
     sum |-> 0,
     ended |-> FALSE,
     panicked |-> FALSE]

\* makeError with the number of the line that follows
makeError_NextLine(q, msg) == [Line |-> q.line + 1, Msg |-> msg]

makeError(q, msg) == [Line |-> q.line, Msg |-> msg]

Panic(q) == [q EXCEPT !.panicked = TRUE]

\* What a read returns: the Parser after it, and the value read
Result(q, v) == [p |-> q, v |-> v]

\* The i-th character (from 1) of the buffer that q.b is a slice of,
\* counted from the start of q.b
BufAt(q, i) ==
    IF i <= Len(q.b) THEN q.b[i]
    ELSE IF i - Len(q.b) <= Len(q.past.chars) THEN q.past.chars[i - Len(q.b)]
    ELSE 0

\* p.b[:k], which may reach past the length of p.b, up to its capacity
Window(q, k) == [i \in 1..k |-> BufAt(q, i)]

\* Lines 241: Decode writes the bytes it decodes to field[0..nd-1], with
\* field == p.field[fo:], and its error goes to p.err
storeDecoded(q, fo, dec) ==
    [q EXCEPT
       !.field = SubSeq(q.field, 1, fo) \o dec.out
                    \o SubSeq(q.field, fo + dec.nd + 1, 256),
       !.err = IF dec.fail = "nil" THEN nil ELSE [Line |-> -1, Msg |-> dec.fail]]

\* Lines 243..253, after p.b = p.b[nd*2:]
checkDecoded(q, n, fo, dec) ==
    IF Byte(dec.nd) < n
    THEN Result([q EXCEPT !.err = makeError(q, "record too short")], NilSlice)
    ELSE IF q.err # nil THEN Result(q, NilSlice)
    ELSE Result([q EXCEPT !.sum = Byte(q.sum + SumSeq(dec.out))],
                [lo |-> fo, hi |-> fo + dec.nd])

\* Lines 241..253.  p.b[nd*2:] panics when nd*2 exceeds the length of p.b.
decodeInto(q, n, fo, dec) ==
    IF dec.nd * 2 > Len(q.b)
    THEN Result(Panic(storeDecoded(q, fo, dec)), NilSlice)
    ELSE checkDecoded([storeDecoded(q, fo, dec) EXCEPT
                         !.b = SubSeq(q.b, dec.nd * 2 + 1, Len(q.b))],
                      n, fo, dec)

\* readFieldInto(n, field) with field == p.field[fo:].  n*2 is computed in
\* the type byte; p.b[:n*2] panics when n*2 exceeds the capacity of p.b.
readFieldInto(q, n, fo) ==
    IF q.panicked \/ q.err # nil THEN Result(q, NilSlice)
    ELSE IF Byte(n * 2) > Len(q.b) + q.past.room THEN Result(Panic(q), NilSlice)
    ELSE decodeInto(q, n, fo, Decode(Window(q, Byte(n * 2))))

readField(q, n) == readFieldInto(q, n, 0)

\* Lines 218..221, given what readField(1) returned
byteOf(r) ==
    IF r.p.panicked \/ r.p.err # nil THEN Result(r.p, 0)
    ELSE Result(r.p, r.p.field[r.v.lo + 1])

readByteField(q) == byteOf(readField(q, 1))

\* Lines 226..229, given what readField(2) returned
wordOf(r) ==
    IF r.p.panicked \/ r.p.err # nil THEN Result(r.p, 0)
    ELSE Result(r.p, Or(r.p.field[r.v.lo + 1] * 256, r.p.field[r.v.lo + 2]))

readWordField(q) == wordOf(readField(q, 2))

\* checkRecLen that lets every length of a known type pass
checkRecLen_AnyLength(q, rectyp, reclen) ==
    IF q.panicked \/ q.err # nil THEN q
    ELSE IF rectyp > 5 THEN Panic(q) ELSE q

\* reclens[rectyp] is an index out of range when rectyp > 5
checkRecLen(q, rectyp, reclen) ==
    IF q.panicked \/ q.err # nil THEN q
    ELSE IF rectyp > 0
         THEN IF rectyp > 5 THEN Panic(q)
              ELSE IF reclen # reclens[rectyp + 1]
                   THEN [q EXCEPT !.err = makeError(q, "invalid record length")]
                   ELSE q
         ELSE q

\* checkEnd that also drops the Record of Data when the checksum is wrong
checkEnd_DropsData(r) ==
    IF r.p.panicked \/ r.p.err # nil THEN r.p
    ELSE IF r.p.sum # 0
         THEN [r.p EXCEPT !.err = makeError(r.p, "invalid checksum"),
                          !.data = ZeroRecord]
         ELSE IF Len(r.p.b) > 0
              THEN [r.p EXCEPT !.err = makeError(r.p, "trailing data")]
              ELSE r.p

\* Lines 204..213, given what readFieldInto(1, p.field[255:]) returned
checkEnd(r) ==
    IF r.p.panicked \/ r.p.err # nil THEN r.p
    ELSE IF r.p.sum # 0
         THEN [r.p EXCEPT !.err = makeError(r.p, "invalid checksum")]
         ELSE IF Len(r.p.b) > 0
              THEN [r.p EXCEPT !.err = makeError(r.p, "trailing data")]
              ELSE r.p

endRecord(q) == checkEnd(readFieldInto(q, 1, 255))

\* Lines 156..162: p.data.Address of a data record
dataAddress(q, offset) ==
    IF q.useSBA THEN Add32(q.sba, U32(offset))
    ELSE IF q.useLBA THEN Or32(q.lba, U32(offset))
    ELSE U32(offset)

\* wrapExtra with the address taken from next instead of next - 1
wrapExtra_FromNext(q, next, extra) ==
    [q EXCEPT
       !.wrap = [set |-> TRUE,
                 Address |-> Add32(q.sba, U32(next % 65536)),
                 Bytes |-> [lo |-> q.data.Bytes.lo + extra, hi |-> q.data.Bytes.hi]],
       !.data.Bytes = [lo |-> q.data.Bytes.lo, hi |-> q.data.Bytes.lo + extra]]

\* Lines 167..171: the first extra bytes stay in p.data, the rest go to p.wrap
wrapExtra(q, next, extra) ==
    [q EXCEPT
       !.wrap = [set |-> TRUE,
                 Address |-> Add32(q.sba, U32((next - 1) % 65536)),
                 Bytes |-> [lo |-> q.data.Bytes.lo + extra, hi |-> q.data.Bytes.hi]],
       !.data.Bytes = [lo |-> q.data.Bytes.lo, hi |-> q.data.Bytes.lo + extra]]

\* splitData without the check of p.useLBA
splitData_AlsoLinear(q, next) ==
    IF (next - 1) - 65535 > 0
    THEN wrapExtra(q, next, (next - 1) - 65535)
    ELSE q

\* Lines 163..173: the split of a data record that runs over the end of a
\* segment, with next == offset + len(p.data.Bytes)
splitData(q, next) ==
    IF ~q.useLBA /\ (next - 1) - 65535 > 0
    THEN wrapExtra(q, next, (next - 1) - 65535)
    ELSE q

\* Lines 155..173, given what readField(reclen) returned
setData(r, offset) ==
    IF r.p.panicked THEN r.p
    ELSE splitData([r.p EXCEPT !.data = [Bytes |-> r.v,
                                         Address |-> dataAddress(r.p, offset)]],
                   offset + SliceLen(r.v))

\* case 0
parseData(q, reclen, offset) == setData(readField(q, reclen), offset)

\* setSBA without the reset of the linear base
setSBA_KeepsLBA(r) ==
    IF r.p.panicked THEN r.p
    ELSE [r.p EXCEPT !.sba = U32(r.v * 16), !.useSBA = TRUE]

\* Lines 178..181, given what readWordField returned
setSBA(r) ==
    IF r.p.panicked THEN r.p
    ELSE [r.p EXCEPT !.sba = U32(r.v * 16), !.useSBA = TRUE,
                     !.lba = U32(0), !.useLBA = FALSE]

\* case 2
parseSBA(q) == setSBA(readWordField(q))

\* setCSIP with the two words the other way round
setCSIP_Swapped(r1, r2) ==
    IF r1.p.panicked THEN r1.p
    ELSE IF r2.p.panicked THEN [r2.p EXCEPT !.cs = r1.v]
    ELSE [r2.p EXCEPT !.cs = r2.v, !.ip = r1.v, !.hasCSIP = TRUE]

\* Lines 183..185, given what the two calls of readWordField returned
setCSIP(r1, r2) ==
    IF r1.p.panicked THEN r1.p
    ELSE IF r2.p.panicked THEN [r2.p EXCEPT !.cs = r1.v]
    ELSE [r2.p EXCEPT !.cs = r1.v, !.ip = r2.v, !.hasCSIP = TRUE]

readIP(r1) == setCSIP(r1, readWordField(r1.p))

\* case 3
parseCSIP(q) == readIP(readWordField(q))

\* Lines 189..190, given what readWordField returned
setLBA(r) ==
    IF r.p.panicked THEN r.p
    ELSE [r.p EXCEPT !.lba = Shl16(r.v), !.useLBA = TRUE]

\* case 4 without the reset of the segment base
parseLBA_KeepsSBA(q) == setLBA(readWordField(q))

\* case 4
parseLBA(q) == setLBA(readWordField([q EXCEPT !.sba = U32(0), !.useSBA = FALSE]))

\* Lines 192..195, given what the two calls of readWordField returned
setEIP(r1, r2) ==
    IF r1.p.panicked THEN r1.p
    ELSE IF r2.p.panicked THEN [r2.p EXCEPT !.eip = Shl16(r1.v)]
    ELSE [r2.p EXCEPT !.eip = Or32(Shl16(r1.v), U32(r2.v)), !.hasEIP = TRUE]

readLowEIP(r1) == setEIP(r1, readWordField([r1.p EXCEPT !.eip = Shl16(r1.v)]))

\* case 5
parseEIP(q) == readLowEIP(readWordField(q))

\* Lines 153..196: the switch
parseSwitch(q, rectyp, reclen, offset) ==
    CASE rectyp = 0 -> parseData(q, reclen, offset)
      [] rectyp = 1 -> [q EXCEPT !.ended = TRUE]
      [] rectyp = 2 -> parseSBA(q)
      [] rectyp = 3 -> parseCSIP(q)
      [] rectyp = 4 -> parseLBA(q)
      [] rectyp = 5 -> parseEIP(q)
      [] OTHER -> q

\* parseInfo: the Parser after it, and what it returns
parseInfo(q, rectyp, reclen, offset) ==
    IF q.panicked THEN Result(q, FALSE)
    ELSE IF q.err # nil THEN Result(q, TRUE)
    ELSE Result(endRecord(parseSwitch(q, rectyp, reclen, offset)), rectyp = 0)

\* Lines 88..89, given what the read of the record type returned
parseTyped(reclen, offset, r3) ==
    parseInfo(checkRecLen(r3.p, r3.v, reclen), r3.v, reclen, offset)

\* Line 87, given what the read of the offset returned
parseOffset(reclen, r2) == parseTyped(reclen, r2.v, readByteField(r2.p))

\* Line 86, given what the read of the record length returned
parseRecLen(r1) == parseOffset(r1.v, readWordField(r1.p))

\* Lines 83..89 of Parse: the fields of one line that starts with the mark
parseLine(q, text, past) ==
    parseRecLen(readByteField([q EXCEPT !.b = Tail(text), !.past = past, !.sum = 0]))

----------------------------------------------------------------------------
(* The history of a run: what the reader delivered and what Parse returned. *)
(* None of it is state of the Parser.                                       *)

IsRecord(d, typ) == d.shape = "ok" /\ WellFormed(d) /\ d.typ = typ

\* A data record d runs over the end of the 64K segment
Crosses(d) == d.off + d.len - 1 > 65535

\* The line d has its record mark and its whole header
HeaderIntact(d) == d.shape \in {"ok", "trail", "mutated", "short", "odd", "nonhex"}

\* Lines 88, 153: the line d passes checkRecLen and reaches the case typ of
\* the switch of parseInfo
Dispatches(d, typ) ==
    HeaderIntact(d) /\ d.typ = typ /\ d.len = reclens[typ + 1]

\* What the methods Data, CSIP and EIP and the next records depend on: the
\* base mode and values, the start addresses, the ended flag, the Record of
\* Data with the bytes it shows, and the pending remainder
Session(q) ==
    [lba |-> q.lba, useLBA |-> q.useLBA, sba |-> q.sba, useSBA |-> q.useSBA,
     cs |-> q.cs, ip |-> q.ip, hasCSIP |-> q.hasCSIP,
     eip |-> q.eip, hasEIP |-> q.hasEIP,
     ended |-> q.ended,
     data |-> q.data, bytes |-> BytesOf(q, q.data.Bytes),
     wrap |-> q.wrap]

\* Lines 127..129: the Record that Data() hands to the caller after the n-th
\* line made Parse return true.  The caller keeps the address, the slice
\* Bytes of p.field, and what it saw in it.
Returned(q, n) ==
    [set |-> TRUE, nRead |-> n, Address |-> q.data.Address,
     Bytes |-> q.data.Bytes, content |-> BytesOf(q, q.data.Bytes)]

NoHistory ==
    [nRead |-> 0,            \* lines the scanner has delivered
     trues |-> 0,            \* calls of Parse that returned true
     cur |-> BlankLine,      \* the last line delivered
     ev |-> "new",           \* the last step taken
     pre |-> Session(NewParser),  \* the session before the last line delivered
     held |-> [set |-> FALSE, nRead |-> 0, Address |-> U32(0),
               Bytes |-> NilSlice, content |-> <<>>],
                             \* the Record of the last line that made Parse return true
     seen3 |-> FALSE,        \* a type-3 line reached its case of parseInfo
     last3 |-> BlankLine,    \* the last one that did
     seen5 |-> FALSE,        \* a type-5 line reached its case of parseInfo
     last5 |-> BlankLine,    \* the last one that did
     wf |-> TRUE,            \* every line so far is well formed, none after the end record
     sawEnd |-> FALSE,       \* a valid type-1 record was delivered
     nData |-> 0,            \* valid type-0 records delivered
     nCrossSeg |-> 0,        \* those that cross under a segment base
     nCrossNone |-> 0,       \* those that cross under no base
     base |-> [typ |-> 0, val |-> 0],      \* the last valid type-2 or type-4 record
     prevBase |-> [typ |-> 0, val |-> 0]]  \* the one before it

\* The history after the scanner delivered line d
Delivered(d, ev) ==
    [g EXCEPT
       !.nRead = @ + 1,
       !.cur = d,
       !.ev = ev,
       !.pre = Session(p),
       !.seen3 = @ \/ (ev \in {"record", "panic"} /\ Dispatches(d, 3)),
       !.last3 = IF ev \in {"record", "panic"} /\ Dispatches(d, 3) THEN d ELSE @,
       !.seen5 = @ \/ (ev \in {"record", "panic"} /\ Dispatches(d, 5)),
       !.last5 = IF ev \in {"record", "panic"} /\ Dispatches(d, 5) THEN d ELSE @,
       !.wf = @ /\ WellFormed(d) /\ ~g.sawEnd,
       !.sawEnd = @ \/ IsRecord(d, 1),
       !.nData = IF IsRecord(d, 0) THEN @ + 1 ELSE @,
       !.nCrossSeg = IF IsRecord(d, 0) /\ Crosses(d) /\ g.base.typ = 2 THEN @ + 1 ELSE @,
       !.nCrossNone = IF IsRecord(d, 0) /\ Crosses(d) /\ g.base.typ = 0 THEN @ + 1 ELSE @,
       !.base = IF IsRecord(d, 2) \/ IsRecord(d, 4)
                THEN [typ |-> d.typ, val |-> d.pay[1] * 256 + d.pay[2]]
                ELSE @,
       !.prevBase = IF IsRecord(d, 2) \/ IsRecord(d, 4) THEN g.base ELSE @]

----------------------------------------------------------------------------
(* Parse *)

Init ==
    /\ p = NewParser
    /\ scanner = "open"
    /\ pc = "idle"
    /\ ret = FALSE
    /\ g = NoHistory

\* Parse can take a step: a call can start, or a running call is at NextRec
AtNextRec == pc \in {"idle", "NextRec"}

\* Lines 72, 96: Scan() is reached
AtScan == AtNextRec /\ p.err = nil /\ ~p.wrap.set

\* Scan() can deliver one more line
CanRead == AtScan /\ scanner = "open" /\ g.nRead < MaxLines

\* Lines 64..66: an error is set
ParseSticky ==
    /\ AtNextRec
    /\ p.err # nil
    /\ pc' = "idle"
    /\ ret' = FALSE
    /\ g' = [g EXCEPT !.ev = "sticky"]
    /\ UNCHANGED <<p, scanner>>

\* ParseWrap without the check of p.err before it
ParseWrap_IgnoresErr ==
    /\ AtNextRec
    /\ p.wrap.set
    /\ p' = [p EXCEPT !.data = [Address |-> p.wrap.Address, Bytes |-> p.wrap.Bytes],
                      !.wrap = NilWrap]
    /\ pc' = "idle"
    /\ ret' = TRUE
    /\ g' = [g EXCEPT !.ev = "wrap", !.trues = @ + 1]
    /\ UNCHANGED scanner

\* ParseWrap that counts a line
ParseWrap_CountsLine ==
    /\ AtNextRec
    /\ p.err = nil
    /\ p.wrap.set
    /\ p' = [p EXCEPT !.data = [Address |-> p.wrap.Address, Bytes |-> p.wrap.Bytes],
                      !.wrap = NilWrap,
                      !.line = @ + 1]
    /\ pc' = "idle"
    /\ ret' = TRUE
    /\ g' = [g EXCEPT !.ev = "wrap", !.trues = @ + 1]
    /\ UNCHANGED scanner

\* ParseWrap that moves the pending bytes to the start of p.field
ParseWrap_MovesBytes ==
    /\ AtNextRec
    /\ p.err = nil
    /\ p.wrap.set
    /\ p' = [p EXCEPT
               !.field = BytesOf(p, p.wrap.Bytes)
                           \o SubSeq(p.field, SliceLen(p.wrap.Bytes) + 1, 256),
               !.data = [Address |-> p.wrap.Address,
                         Bytes |-> [lo |-> 0, hi |-> SliceLen(p.wrap.Bytes)]],
               !.wrap = NilWrap]
    /\ pc' = "idle"
    /\ ret' = TRUE
    /\ g' = [g EXCEPT !.ev = "wrap", !.trues = @ + 1]
    /\ UNCHANGED scanner

\* Lines 67..71: the second half of a split record is pending
ParseWrap ==
    /\ AtNextRec
    /\ p.err = nil
    /\ p.wrap.set
    /\ p' = [p EXCEPT !.data = [Address |-> p.wrap.Address, Bytes |-> p.wrap.Bytes],
                      !.wrap = NilWrap]
    /\ pc' = "idle"
    /\ ret' = TRUE
    /\ g' = [g EXCEPT !.ev = "wrap", !.trues = @ + 1]
    /\ UNCHANGED scanner

\* Lines 96..103: the input is exhausted and the scanner has no error
ScanEOF ==
    /\ AtScan
    /\ scanner \in {"open", "eof"}
    /\ scanner' = "eof"
    /\ p' = [p EXCEPT !.err = IF ~p.ended THEN makeError(p, "missing end record")
                              ELSE nil]
    /\ pc' = "idle"
    /\ ret' = FALSE
    /\ g' = [g EXCEPT !.ev = "eof"]

\* Lines 96..103: the scanner stopped on an error of the reader, or on a
\* line longer than its buffer may grow
ScanFail ==
    /\ AtScan
    /\ scanner = "open"
    /\ scanner' = "failed"
    /\ p' = [p EXCEPT !.err = [Line |-> -1, Msg |-> "scanner error"]]
    /\ pc' = "idle"
    /\ ret' = FALSE
    /\ g' = [g EXCEPT !.ev = "fail"]

\* ScanAfterEnd with the line counted before the error is made
ScanAfterEnd_CountsLine ==
    /\ CanRead
    /\ p.ended
    /\ \E in \in Deliveries :
         g' = Delivered(in.d, "afterend")
    /\ p' = [p EXCEPT !.line = @ + 1,
                      !.err = [Line |-> p.line + 1, Msg |-> "record after end"]]
    /\ pc' = "idle"
    /\ ret' = FALSE
    /\ UNCHANGED scanner

\* Lines 105..108: a line was scanned after the end record
ScanAfterEnd ==
    /\ CanRead
    /\ p.ended
    /\ \E in \in Deliveries :
         g' = Delivered(in.d, "afterend")
    /\ p' = [p EXCEPT !.err = makeError(p, "record after end")]
    /\ pc' = "idle"
    /\ ret' = FALSE
    /\ UNCHANGED scanner

\* Lines 109, 75..78: an empty line
ParseBlank ==
    /\ CanRead
    /\ ~p.ended
    /\ \E in \in Deliveries :
         /\ Len(in.text) = 0
         /\ g' = Delivered(in.d, "blank")
    /\ p' = [p EXCEPT !.line = @ + 1]
    /\ pc' = "NextRec"
    /\ UNCHANGED <<ret, scanner>>

\* Lines 109, 79..82: a line that does not start with ':'
ParseNoMark ==
    /\ CanRead
    /\ ~p.ended
    /\ \E in \in Deliveries :
         /\ Len(in.text) > 0
         /\ in.text[1] # 58
         /\ g' = Delivered(in.d, "nomark")
    /\ p' = [[p EXCEPT !.line = @ + 1] EXCEPT
               !.err = makeError([p EXCEPT !.line = @ + 1], "missing record mark")]
    /\ pc' = "idle"
    /\ ret' = FALSE
    /\ UNCHANGED scanner

\* Lines 109, 83..92: a line that starts with ':'
ParseRecord ==
    /\ CanRead
    /\ ~p.ended
    /\ \E in \in Deliveries :
         /\ Len(in.text) > 0
         /\ in.text[1] = 58
         /\ LET d == in.d
                r == parseLine([p EXCEPT !.line = @ + 1], in.text, in.past)
            IN  /\ p' = r.p
                /\ IF r.p.panicked
                   THEN /\ pc' = "panic"
                        /\ ret' = ret
                        /\ g' = Delivered(d, "panic")
                   ELSE IF ~r.v
                   THEN /\ pc' = "NextRec"
                        /\ ret' = ret
                        /\ g' = Delivered(d, "record")
                   ELSE /\ pc' = "idle"
                        /\ ret' = (r.p.err = nil)
                        /\ g' = [Delivered(d, "record") EXCEPT
                                   !.trues = IF r.p.err = nil THEN @ + 1 ELSE @,
                                   !.held = IF r.p.err = nil
                                            THEN Returned(r.p, g.nRead + 1)
                                            ELSE @]
    /\ UNCHANGED scanner

Next ==
    \/ ParseSticky
    \/ ParseWrap
    \/ ScanEOF
    \/ ScanFail
    \/ ScanAfterEnd
    \/ ParseBlank
    \/ ParseNoMark
    \/ ParseRecord

Spec == Init /\ [][Next]_vars

----------------------------------------------------------------------------
TypeOK ==
    /\ pc \in {"idle", "NextRec", "panic"}
    /\ scanner \in {"open", "eof", "failed"}
    /\ ret \in BOOLEAN
    /\ p.line \in 0..MaxLines
    /\ p.sum \in 0..255
    /\ p.sba.hi \in 0..15
    /\ p.lba.lo = 0
    /\ p.data.Bytes.lo <= p.data.Bytes.hi
    /\ p.data.Bytes.hi <= 255

----------------------------------------------------------------------------
(* The claims *)

\* The last step processed a valid data record and Parse returned true
Emitted == g.ev = "record" /\ pc = "idle" /\ ret /\ IsRecord(g.cur, 0)

\* The base that the last valid type-2 record set, 0 when a type-4 record
\* or none came after it
SegmentBase == IF g.base.typ = 2 THEN g.base.val * 16 ELSE 0

\* C1: once an error is set, every further step of Parse returns false,
\* reads no line (neither the line counter nor the reader moves) and leaves
\* the error as it is.
C1_StickyError ==
    [][p.err # nil =>
         /\ pc' = "idle"
         /\ ret' = FALSE
         /\ p'.err = p.err
         /\ p'.line = p.line
         /\ g'.nRead = g.nRead
         /\ scanner' = scanner]_vars

\* Parse was called again after an error and returned false, with the
\* second half of a split record still pending
C1_Witness == g.ev = "sticky" /\ p.err # nil /\ ~ret /\ p.wrap.set

\* C2: while the stream read so far is well formed no error is set, and when
\* a well-formed stream that ends with its type-1 record is exhausted, Parse
\* returns false with no error, after one true per type-0 record plus one per
\* data record that crosses a 16-bit boundary under segment-base mode.
C2_WellFormedStreamEnds ==
    /\ (g.wf /\ scanner = "open") => (p.err = nil /\ pc # "panic")
    /\ (g.wf /\ g.sawEnd /\ g.ev = "eof") =>
          (~ret /\ p.err = nil /\ g.trues = g.nData + g.nCrossSeg)

\* C3: when a data record is split, the first Record holds the first
\* 0x10000 - offset bytes of the payload at base + offset, and the pending
\* Record holds the rest.
C3_SplitAtBoundary ==
    (Emitted /\ p.wrap.set) =>
        /\ BytesOf(p, p.data.Bytes) = SubSeq(g.cur.pay, 1, 65536 - g.cur.off)
        /\ p.data.Address = U32(SegmentBase + g.cur.off)
        /\ BytesOf(p, p.wrap.Bytes) =
              SubSeq(g.cur.pay, 65536 - g.cur.off + 1, Len(g.cur.pay))

\* C4: when a data record is split, the pending Record's address is
\* segmentBase + ((offset + len - 1) & 0xFFFF), and that is the address of the
\* Record the next call returns; segment 0x1200, offset 0xFFFF and 2 bytes
\* give 0x21FFF and 0x12000, one byte each.
C4_WrapAddress ==
    /\ (Emitted /\ p.wrap.set) =>
          /\ p.wrap.Address =
                U32(SegmentBase + ((g.cur.off + g.cur.len - 1) % 65536))
          /\ (g.cur = DataRec(65535, 2) /\ g.base = [typ |-> 2, val |-> 4608]) =>
                /\ p.data.Address = [hi |-> 2, lo |-> 8191]
                /\ SliceLen(p.data.Bytes) = 1
                /\ p.wrap.Address = [hi |-> 1, lo |-> 8192]
                /\ SliceLen(p.wrap.Bytes) = 1
    /\ (g.ev = "wrap") =>
          /\ ret
          /\ ~p.wrap.set
          /\ p.data.Address =
                U32(SegmentBase + ((g.cur.off + g.cur.len - 1) % 65536))

\* The second Record of the split at segment 0x1200, offset 0xFFFF
C4_Witness ==
    /\ g.ev = "wrap"
    /\ g.cur = DataRec(65535, 2)
    /\ g.base = [typ |-> 2, val |-> 4608]
    /\ p.data.Address = [hi |-> 1, lo |-> 8192]

\* C5: the address of the Record of a data record is (segment << 4) + offset
\* after a type-2 record, (upper << 16) | offset after a type-4 record and
\* offset after neither, whatever base record came before the last one.
C5_DataAddress ==
    Emitted =>
        p.data.Address =
            CASE g.base.typ = 2 -> U32(g.base.val * 16 + g.cur.off)
              [] g.base.typ = 4 -> [hi |-> g.base.val, lo |-> g.cur.off]
              [] OTHER -> U32(g.cur.off)

\* A data record after a type-4 record FFFF and then a type-2 record 0000
C5_Witness ==
    /\ Emitted
    /\ g.prevBase = [typ |-> 4, val |-> 65535]
    /\ g.base = [typ |-> 2, val |-> 0]
    /\ p.data.Address = U32(g.cur.off)

C7_OneBaseMode ==
    /\ ~(p.useSBA /\ p.useLBA)
    /\ ~p.useSBA => p.sba = U32(0)
    /\ ~p.useLBA => p.lba = U32(0)

\* A type-2 record that ended in an error, after a type-4 record
C7_Witness ==
    /\ g.ev = "sticky"
    /\ g.cur.typ = 2
    /\ p.err.Msg = "invalid checksum"
    /\ g.base.typ = 4
    /\ p.useSBA

\* C8: a type-0 record of any length 0..255 with its payload and a correct
\* checksum raises no error, and its Records carry exactly that many bytes.
C8_AnyDataLength ==
    (g.ev \in {"record", "panic"} /\ IsRecord(g.cur, 0)) =>
        /\ p.err = nil
        /\ pc = "idle"
        /\ ret
        /\ SliceLen(p.data.Bytes)
             + (IF p.wrap.set THEN SliceLen(p.wrap.Bytes) ELSE 0) = g.cur.len

\* C9: a record of a type above 5 with a correct checksum raises no error and
\* no failure, and parsing goes on with the next line.
C9_UnknownTypeIgnored ==
    (g.ev \in {"record", "panic"} /\ g.cur.typ > 5 /\ g.cur.shape = "ok" /\ g.cur.ck) =>
        /\ p.err = nil
        /\ ~p.panicked
        /\ pc = "NextRec"

\* C10: when the input is exhausted and no type-1 record came, Parse returns
\* false with "missing end record" at the number of lines read.
C10_MissingEndRecord ==
    (g.ev = "eof" /\ ~g.sawEnd) =>
        /\ pc = "idle"
        /\ ~ret
        /\ p.err = [Line |-> g.nRead, Msg |-> "missing end record"]

\* The input ended after one valid data record
C10_Witness ==
    /\ g.ev = "eof"
    /\ g.nRead = 1
    /\ g.nData = 1
    /\ p.err = [Line |-> 1, Msg |-> "missing end record"]

\* C11 as stated: a non-blank line after the type-1 record fails with
\* "record after end" at the 1-based number of that later line.
C11_AfterEndAtLaterLine ==
    (g.ev = "afterend" /\ g.cur.shape # "blank") =>
        /\ pc = "idle"
        /\ ~ret
        /\ p.err = [Line |-> g.nRead, Msg |-> "record after end"]

\* C11 as amended: a non-blank line after the type-1 record fails with
\* "record after end" at the number of the end record's line, the line before
\* it: the later line is not counted.
C11_AfterEndAtEndLine ==
    (g.ev = "afterend" /\ g.cur.shape # "blank") =>
        /\ pc = "idle"
        /\ ~ret
        /\ p.err = [Line |-> g.nRead - 1, Msg |-> "record after end"]
        /\ p.line = g.nRead - 1

\* The input of TestEnd: an end record, then a type-2 record
C11_Witness ==
    /\ g.ev = "afterend"
    /\ g.nRead = 2
    /\ g.cur = WordRec(2, 4608)
    /\ p.err = [Line |-> 1, Msg |-> "record after end"]

\* C12: a type-1 record followed by an empty line ends without an error.
C12_BlankAfterEndIsClean ==
    (g.ev = "afterend" /\ g.cur.shape = "blank") => p.err = nil

\* The base mode, the start addresses and the ended flag of a session
Modes(s) ==
    [lba |-> s.lba, useLBA |-> s.useLBA, sba |-> s.sba, useSBA |-> s.useSBA,
     cs |-> s.cs, ip |-> s.ip, hasCSIP |-> s.hasCSIP,
     eip |-> s.eip, hasEIP |-> s.hasEIP, ended |-> s.ended]

\* d is a whole record of a type 1..5, with a right checksum
TypedRecord(d) == d.shape = "ok" /\ d.ck /\ d.typ \in 1..5

\* C13: a record of a type 1..5 whose length byte is not the one of its type
\* (0, 2, 4, 2, 4) makes Parse fail with "invalid record length" and changes
\* neither the base mode, CS:IP, EIP nor the ended flag; one whose length is
\* that of its type is not refused for its length.
C13_RecordLength ==
    (g.ev = "record" /\ TypedRecord(g.cur)) =>
        IF g.cur.len # reclens[g.cur.typ + 1]
        THEN /\ pc = "idle"
             /\ ~ret
             /\ p.err = [Line |-> g.nRead, Msg |-> "invalid record length"]
             /\ Modes(Session(p)) = Modes(g.pre)
        ELSE p.err.Msg # "invalid record length"

\* A type-2 record of length 4 was refused after a type-2 and a type-3 record
\* had set a segment base and CS:IP
C13_Witness ==
    /\ g.ev = "record"
    /\ g.cur = Rec(2, 4, 0, <<18, 0, 0, 0>>, TRUE, "ok")
    /\ p.err.Msg = "invalid record length"
    /\ p.useSBA
    /\ p.hasCSIP

\* C14: a valid record with one byte changed makes the call of Parse that
\* reads it end with an error, one of "invalid checksum", "invalid record
\* length", "record too short" and "trailing data"; Parse neither accepts
\* the line nor crashes.
C14_OneByteChanged ==
    (g.ev \in {"record", "panic"} /\ g.cur.shape = "mutated") =>
        /\ ~p.panicked
        /\ pc # "panic"
        /\ ~(pc = "idle" /\ ret)
        /\ p.err.Msg \in {"invalid checksum", "invalid record length",
                          "record too short", "trailing data"}

\* The line d carries every payload byte its length byte declares
WholePayload(d) == d.shape \in {"ok", "trail"} /\ Len(d.pay) = d.len

\* The big-endian word at the bytes i, i + 1 of the payload of d
PayloadWord(d, i) == d.pay[i] * 256 + d.pay[i + 1]

\* C15: CSIP reports ok exactly when a type-3 record was processed, with cs
\* and ip the two big-endian words of the last one; EIP reports ok exactly
\* when a type-5 record was processed, with eip the first word of the last
\* one shifted left by 16, or-ed with its second word.
C15_StartAddresses ==
    ~p.panicked =>
        /\ p.hasCSIP = g.seen3
        /\ (g.seen3 /\ WholePayload(g.last3)) =>
              /\ p.cs = PayloadWord(g.last3, 1)
              /\ p.ip = PayloadWord(g.last3, 3)
        /\ p.hasEIP = g.seen5
        /\ (g.seen5 /\ WholePayload(g.last5)) =>
              p.eip = [hi |-> PayloadWord(g.last5, 1), lo |-> PayloadWord(g.last5, 3)]

\* A type-5 record, then two type-3 records with different words: the
\* second one is what CSIP reports
C15_Witness ==
    /\ g.ev = "record"
    /\ g.cur = TwoWordRec(3, 1, 2)
    /\ g.pre.hasCSIP
    /\ g.pre.cs = 4660
    /\ p.hasCSIP
    /\ p.cs = 1
    /\ p.ip = 2
    /\ p.hasEIP
    /\ p.eip = [hi |-> 4660, lo |-> 22136]

\* What the Record that the caller holds shows now
HeldBytes == BytesOf(p, g.held.Bytes)

\* C16 as stated: the bytes of a Record that Data() returned are not changed
\* by later calls of Parse, also not by one that reads further lines and
\* ends in an error.
C16_RecordStaysValid == g.held.set => HeldBytes = g.held.content

\* C16 as amended: the bytes of a Record that Data() returned are not changed
\* by later calls of Parse that read no further line (a pending remainder, a
\* set error, the end of the input).
C16_RecordValidUntilNextLine ==
    (g.held.set /\ g.nRead = g.held.nRead) => HeldBytes = g.held.content

\* The first part of a split record is still what it was after the next
\* call returned the remainder
C16_Witness ==
    /\ g.ev = "wrap"
    /\ g.held.set
    /\ g.nRead = g.held.nRead
    /\ Len(g.held.content) > 0
    /\ HeldBytes = g.held.content
    /\ BytesOf(p, p.data.Bytes) # g.held.content

\* C17: when a call of Parse has split a data record, the next call returns
\* true with the pending remainder as the Record of Data, reads no line (the
\* line counter and the reader stay as they are) and empties the pending slot.
C17_PendingRemainder ==
    [][(pc = "idle" /\ ret /\ p.wrap.set) =>
         /\ pc' = "idle"
         /\ ret' = TRUE
         /\ p'.data = [Address |-> p.wrap.Address, Bytes |-> p.wrap.Bytes]
         /\ BytesOf(p', p'.data.Bytes) = BytesOf(p, p.wrap.Bytes)
         /\ p'.wrap = NilWrap
         /\ p'.line = p.line
         /\ g'.nRead = g.nRead
         /\ scanner' = scanner
         /\ p'.err = nil]_vars

\* The call after a split returned true, with the line counter where the
\* split record left it and nothing pending
C17_Witness ==
    /\ g.ev = "wrap"
    /\ pc = "idle"
    /\ ret
    /\ ~p.wrap.set
    /\ p.line = g.held.nRead
    /\ SliceLen(p.data.Bytes) > 0
    /\ g.trues >= 2

\* C18: a line with a character that is no hex digit, or with an odd number
\* of hex digits, fails with an error of encoding/hex (malformed hex), not
\* with "record too short".
C18_MalformedHexKind ==
    (g.ev = "record" /\ g.cur.shape \in {"odd", "nonhex"} /\ ~p.panicked) =>
        /\ p.err # nil
        /\ p.err.Msg \in {"hex: invalid byte", "hex: odd length"}

\* The value of a uint32
Val32(a) == a.hi * 65536 + a.lo

\* The Record of Data holds the payload bytes k+1, k+2, ... of the last line,
\* each at the address of its index: segment base + ((offset + index) mod 65536)
AtItsAddress(k) ==
    \A i \in 1..SliceLen(p.data.Bytes) :
        /\ k + i <= Len(g.cur.pay)
        /\ BytesOf(p, p.data.Bytes)[i] = g.cur.pay[k + i]
        /\ Val32(p.data.Address) + (i - 1)
              = SegmentBase + ((g.cur.off + k + i - 1) % 65536)

\* C19: under a segment base or no base, every payload byte of a data record
\* is emitted once and in order, the byte of index i at the address
\* segment base + ((offset + i) mod 65536), also when the record is split.
C19_EveryByteAtItsAddress ==
    (g.base.typ # 4 /\ IsRecord(g.cur, 0)) =>
        /\ Emitted =>
             /\ AtItsAddress(0)
             /\ SliceLen(p.data.Bytes)
                  + (IF p.wrap.set THEN SliceLen(p.wrap.Bytes) ELSE 0) = g.cur.len
        /\ (g.ev = "wrap" /\ pc = "idle" /\ ret) =>
             /\ AtItsAddress(SliceLen(g.held.Bytes))
             /\ SliceLen(g.held.Bytes) + SliceLen(p.data.Bytes) = g.cur.len

\* The last line read failed its validation
FailedLine ==
    /\ g.ev = "record"
    /\ ~p.panicked
    /\ p.err.Msg \in {"record too short", "invalid checksum", "trailing data"}

\* The record type that Parse read from the last line, -1 when the line ends
\* before it
TypeRead == IF HeaderIntact(g.cur) THEN g.cur.typ ELSE -1

\* C20 as stated: a line that fails validation (record too short, invalid
\* checksum, trailing data) changes nothing of the session but the error:
\* base mode and values, CS:IP, EIP, the ended flag and the Record of Data
\* are as before.
C20_FailedLineNoEffect ==
    FailedLine =>
        /\ Modes(Session(p)) = Modes(g.pre)
        /\ p.data = g.pre.data
        /\ BytesOf(p, p.data.Bytes) = g.pre.bytes

\* C20 as amended: a line that fails validation does not make Parse return
\* true, and it leaves unchanged what its record type does not assign: the
\* base mode and values unless it is of type 2 or 4, CS:IP unless of type 3,
\* EIP unless of type 5, the ended flag unless of type 1, the address and the
\* extent of the Record of Data and the pending remainder unless of type 0.
C20_FailedLineFrame ==
    FailedLine =>
        /\ ~(pc = "idle" /\ ret)
        /\ p.err.Line = g.nRead
        /\ TypeRead \notin {2, 4} =>
              /\ p.lba = g.pre.lba /\ p.useLBA = g.pre.useLBA
              /\ p.sba = g.pre.sba /\ p.useSBA = g.pre.useSBA
        /\ TypeRead # 3 =>
              p.cs = g.pre.cs /\ p.ip = g.pre.ip /\ p.hasCSIP = g.pre.hasCSIP
        /\ TypeRead # 5 => p.eip = g.pre.eip /\ p.hasEIP = g.pre.hasEIP
        /\ TypeRead # 1 => p.ended = g.pre.ended
        /\ TypeRead # 0 => p.data = g.pre.data /\ p.wrap = g.pre.wrap

\* A type-2 line with a wrong checksum, after a type-3 and a data record:
\* the segment base is set, CS:IP and the Record of Data are as before
C20_Witness ==
    /\ FailedLine
    /\ g.cur = Rec(2, 2, 0, <<18, 0>>, FALSE, "ok")
    /\ p.err.Msg = "invalid checksum"
    /\ p.useSBA
    /\ ~g.pre.useSBA
    /\ p.hasCSIP
    /\ SliceLen(p.data.Bytes) > 0

====
